---- MODULE Spec2Model ----
(***************************************************************************)
(* The ROI interaction engine of Drow_Roi_On_Image.py: the DrawROI entity, *)
(* the coordinate mapper and the pointer/toolbar handlers of               *)
(* ImageProcessor, as a state machine over the fields of ImageProcessor    *)
(* and the class counter DrawROI.roi_counter.                              *)
(*                                                                         *)
(* Conventions.  A QPoint is a pair <<x, y>>; "no point" (None) is <<>>.   *)
(* A QRect is a record of its two stored corners x1,y1,x2,y2 (Qt keeps a   *)
(* rectangle as inclusive corners: width = x2 - x1 + 1).  A float scale    *)
(* factor is an exact fraction <<num, den>> in lowest terms.  Strings that *)
(* the program trims are sequences of one-character strings.               *)
(* A DrawROI object is a record; roi_list holds the objects in order and   *)
(* selected_roi is a reference: 0 (None), k > 0 (the k-th object of        *)
(* roi_list) or -1 (an object that is no longer in roi_list, kept in       *)
(* detached).  The field shared of a ROI says that start and end are one   *)
(* and the same QPoint object (DrawROI(pos, pos)), so that an in-place     *)
(* edit of one is an edit of the other.                                    *)
(* Presentation state (cursor shape, icon opacity, status bar text, the    *)
(* painted pixels) is not modelled; of the label's pixmap only whether it  *)
(* is a non-null pixmap is kept, which is what the handlers' guards read.  *)
(***************************************************************************)
EXTENDS Integers, Sequences, FiniteSets, TLC

\* ------------------------------------------------------------------ bounds
\* The name counter is capped: no DrawROI is constructed beyond it.
MaxCounter == 2
\* Pointer and toolbar events handled in one run.
MaxEvents == 4
\* Numerator and denominator of the scale factor stay within this.
MaxScaleTerm == 625

\* ------------------------------------------------------- program constants
edge_thickness == 2
GrabHandleSize == 6
IconBase == 16
IconGap == 5
DuplicateOffset == 10

None == <<>>
NoHandle == "None"
NoPath == "None"

\* ---------------------------------------------------------------- numbers
Min(a, b) == IF a <= b THEN a ELSE b
Max(a, b) == IF a >= b THEN a ELSE b

\* Python's int() of the quotient a / b, b > 0: truncation toward zero.
Trunc(a, b) == IF a >= 0 THEN a \div b ELSE -((-a) \div b)

RECURSIVE Gcd(_, _)
Gcd(a, b) == IF b = 0 THEN a ELSE Gcd(b, a % b)

\* The fraction n/d (n, d > 0) in lowest terms.
Frac(n, d) == <<n \div Gcd(n, d), d \div Gcd(n, d)>>

FracLeq(f, g) == f[1] * g[2] <= g[1] * f[2]
FracMin(f, g) == IF FracLeq(f, g) THEN f ELSE g
FracMul(f, g) == Frac(f[1] * g[1], f[2] * g[2])

\* int(v * s) and int(v / s) for an integer v and a scale factor s.
IntMul(v, s) == Trunc(v * s[1], s[2])
IntDiv(v, s) == Trunc(v * s[2], s[1])

\* ------------------------------------------------------------------ QRect
QRectPP(p, q) == [x1 |-> p[1], y1 |-> p[2], x2 |-> q[1], y2 |-> q[2]]
QRectXYWH(x, y, w, h) == [x1 |-> x, y1 |-> y, x2 |-> x + w - 1, y2 |-> y + h - 1]

Left(r) == r.x1
Top(r) == r.y1
Right(r) == r.x2
Bottom(r) == r.y2
Width(r) == r.x2 - r.x1 + 1
Height(r) == r.y2 - r.y1 + 1

\* QRect::normalized() of Qt 6: a rectangle whose second corner lies before
\* its first is rebuilt from the corners moved one step inward.
Normalized(r) ==
    [x1 |-> IF r.x2 < r.x1 THEN r.x2 + 1 ELSE r.x1,
     x2 |-> IF r.x2 < r.x1 THEN r.x1 - 1 ELSE r.x2,
     y1 |-> IF r.y2 < r.y1 THEN r.y2 + 1 ELSE r.y1,
     y2 |-> IF r.y2 < r.y1 THEN r.y1 - 1 ELSE r.y2]

\* QRect::contains(QPoint) (proper = false).
RectContains(r, p) ==
    LET l == IF r.x2 < r.x1 - 1 THEN r.x2 ELSE r.x1
        rr == IF r.x2 < r.x1 - 1 THEN r.x1 ELSE r.x2
        t == IF r.y2 < r.y1 - 1 THEN r.y2 ELSE r.y1
        b == IF r.y2 < r.y1 - 1 THEN r.y1 ELSE r.y2
    IN  /\ p[1] >= l /\ p[1] <= rr
        /\ p[2] >= t /\ p[2] <= b

\* ---------------------------------------------------------------- DrawROI
RoiName(n) == "ROI_" \o ToString(n)

\* DrawROI.__init__ with the counter already incremented to n.
NewRoi(s, e, sameObject, n) ==
    [start |-> s, end |-> e, shared |-> sameObject,
     name |-> RoiName(n), description |-> "", tags |-> <<>>]

\* get_rect without the call of normalized().
get_rect_raw(roi) == QRectPP(roi.start, roi.end)

get_rect(roi) == Normalized(QRectPP(roi.start, roi.end))

HandleNames == <<"top_left", "top_right", "bottom_left", "bottom_right">>

get_handles(roi, handle_size) ==
    LET rect == get_rect(roi)
        h == handle_size \div 2
    IN  [top_left |-> QRectXYWH(Left(rect) - h, Top(rect) - h, handle_size, handle_size),
         top_right |-> QRectXYWH(Right(rect) - h, Top(rect) - h, handle_size, handle_size),
         bottom_left |-> QRectXYWH(Left(rect) - h, Bottom(rect) - h, handle_size, handle_size),
         bottom_right |-> QRectXYWH(Right(rect) - h, Bottom(rect) - h, handle_size, handle_size)]

\* The first handle, in the dictionary's order, whose square holds the point.
FirstHandle(handles, point) ==
    LET hit == {i \in 1..4 : RectContains(handles[HandleNames[i]], point)}
    IN  IF hit = {} THEN NoHandle
        ELSE HandleNames[CHOOSE i \in hit : \A j \in hit : i <= j]

is_on_handle(roi, point) == FirstHandle(get_handles(roi, GrabHandleSize), point)

\* is_near_edge without the loop over the corner squares.
is_near_edge_plain(roi, point) ==
    LET rect == get_rect(roi)
        h == edge_thickness \div 2
        left_edge == QRectXYWH(Left(rect) - h, Top(rect), edge_thickness, Height(rect))
        right_edge == QRectXYWH(Right(rect) - h, Top(rect), edge_thickness, Height(rect))
        top_edge == QRectXYWH(Left(rect), Top(rect) - h, Width(rect), edge_thickness)
        bottom_edge == QRectXYWH(Left(rect), Bottom(rect) - h, Width(rect), edge_thickness)
    IN  IF RectContains(left_edge, point) THEN "left"
        ELSE IF RectContains(right_edge, point) THEN "right"
        ELSE IF RectContains(top_edge, point) THEN "top"
        ELSE IF RectContains(bottom_edge, point) THEN "bottom"
        ELSE NoHandle

is_near_edge(roi, point) ==
    LET rect == get_rect(roi)
        corner == FirstHandle(get_handles(roi, edge_thickness), point)
        h == edge_thickness \div 2
        left_edge == QRectXYWH(Left(rect) - h, Top(rect), edge_thickness, Height(rect))
        right_edge == QRectXYWH(Right(rect) - h, Top(rect), edge_thickness, Height(rect))
        top_edge == QRectXYWH(Left(rect), Top(rect) - h, Width(rect), edge_thickness)
        bottom_edge == QRectXYWH(Left(rect), Bottom(rect) - h, Width(rect), edge_thickness)
    IN  IF corner # NoHandle THEN corner
        ELSE IF RectContains(left_edge, point) THEN "left"
        ELSE IF RectContains(right_edge, point) THEN "right"
        ELSE IF RectContains(top_edge, point) THEN "top"
        ELSE IF RectContains(bottom_edge, point) THEN "bottom"
        ELSE NoHandle

contains(roi, point) ==
    /\ FirstHandle(get_handles(roi, edge_thickness), point) = NoHandle
    /\ RectContains(get_rect(roi), point)

get_icon_positions(roi, scale) ==
    LET rect == get_rect(roi)
        icon_size == IntMul(IconBase, scale)
    IN  [gear |-> <<IntMul(Right(rect), scale) - icon_size - IconGap,
                    IntMul(Top(rect), scale) - icon_size - IconGap>>,
         duplicate |-> <<IntMul(Right(rect), scale) - 2 * (icon_size + IconGap),
                         IntMul(Top(rect), scale) - icon_size - IconGap>>,
         icon_size |-> icon_size]

is_on_icon(roi, point, scale) ==
    LET pos == get_icon_positions(roi, scale)
        side == IntDiv(pos.icon_size, scale)
        gear_rect == QRectXYWH(IntDiv(pos.gear[1], scale), IntDiv(pos.gear[2], scale), side, side)
        duplicate_rect == QRectXYWH(IntDiv(pos.duplicate[1], scale),
                                    IntDiv(pos.duplicate[2], scale), side, side)
    IN  IF RectContains(gear_rect, point) THEN "gear"
        ELSE IF RectContains(duplicate_rect, point) THEN "duplicate"
        ELSE "None"


\* ------------------------------------------------------- trimmed strings
RECURSIVE LStrip(_)
LStrip(t) == IF t # <<>> /\ Head(t) = " " THEN LStrip(Tail(t)) ELSE t

RECURSIVE RStrip(_)
RStrip(t) ==
    IF t # <<>> /\ t[Len(t)] = " " THEN RStrip(SubSeq(t, 1, Len(t) - 1)) ELSE t

\* str.strip() on a sequence of characters.
Strip(t) == RStrip(LStrip(t))

Range(q) == {q[i] : i \in DOMAIN q}

RemoveAt(q, i) == SubSeq(q, 1, i - 1) \o SubSeq(q, i + 1, Len(q))

\* ------------------------------------------------------- ROIEditorDialog
\* ROIEditorDialog.add_tag on the dialog's list widget (items) for roi.
add_tag(items, roi, text) ==
    LET tag == Strip(text)
    IN  IF tag # <<>> /\ tag \notin Range(roi.tags) THEN Append(items, tag) ELSE items

\* ROIEditorDialog.remove_tag with row as the current item (0: none).
remove_tag(items, row) ==
    IF row \in 1..Len(items) THEN RemoveAt(items, row) ELSE items

RECURSIVE RunTagOps(_, _, _)
RunTagOps(items, roi, ops) ==
    IF ops = <<>> THEN items
    ELSE RunTagOps(IF Head(ops).op = "add"
                     THEN add_tag(items, roi, Head(ops).text)
                     ELSE remove_tag(items, Head(ops).row),
                   roi, Tail(ops))

\* dialog.exec(): the user's session (the name and description typed, if
\* any; the tag operations in order; OK or Cancel), then accept() on OK.
EditorExec(roi, session) ==
    IF session.ok
    THEN [roi EXCEPT
            !.name = IF session.name = <<>> THEN roi.name ELSE session.name[1],
            !.description = IF session.description = <<>> THEN roi.description
                            ELSE session.description[1],
            !.tags = RunTagOps(roi.tags, roi, session.ops)]
    ELSE roi

\* --------------------------------------------------------- serialization
AllKeys == {"start", "end", "name", "description", "tags"}

to_dict(roi) ==
    [keys |-> AllKeys, start |-> roi.start, end |-> roi.end, name |-> roi.name,
     description |-> roi.description, tags |-> roi.tags]

\* Whether DrawROI.from_dict raises KeyError on this entry.
EntryRaises(data) == ~({"start", "end"} \subseteq data.keys)

\* from_dict without the line that reads the tags.
from_dict_untagged(data, n) ==
    [NewRoi(data.start, data.end, FALSE, n) EXCEPT
        !.name = IF "name" \in data.keys THEN data.name ELSE RoiName(n),
        !.description = IF "description" \in data.keys THEN data.description ELSE ""]

\* DrawROI.from_dict, the counter already incremented to n by __init__.
from_dict(data, n) ==
    [NewRoi(data.start, data.end, FALSE, n) EXCEPT
        !.name = IF "name" \in data.keys THEN data.name ELSE RoiName(n),
        !.description = IF "description" \in data.keys THEN data.description ELSE "",
        !.tags = IF "tags" \in data.keys THEN data.tags ELSE <<>>]

\* ------------------------------------------------------------------ state
VARIABLES
    image,          \* None, or <<width, height>> of the QImage (<<0, 0>>: null image)
    image_path,     \* NoPath or the path of the image
    pixmap,         \* the label holds a non-null pixmap
    drawing,
    roi_list,
    selected_roi,   \* 0, an index into roi_list, or -1 (see detached)
    detached,       \* the selected object when it is not in roi_list
    last_point,
    resize_handle,
    scale_factor,
    roi_counter,    \* DrawROI.roi_counter
    disk,           \* <<>> or <<the ROI file last written by save_rois>>
    ev,             \* the event handled last (observation only)
    nevents         \* events handled so far

pvars == <<image, image_path, pixmap, drawing, roi_list, selected_roi, detached,
           last_point, resize_handle, scale_factor, roi_counter, disk>>
vars == <<image, image_path, pixmap, drawing, roi_list, selected_roi, detached,
          last_point, resize_handle, scale_factor, roi_counter, disk, ev, nevents>>

NullImage == <<0, 0>>
NoRoi == [start |-> None, end |-> None, shared |-> FALSE,
          name |-> "", description |-> "", tags |-> <<>>]

\* ImageProcessor.initUI: the required variables.
Init ==
    /\ image = None
    /\ image_path = NoPath
    /\ pixmap = FALSE
    /\ drawing = FALSE
    /\ roi_list = <<>>
    /\ selected_roi = 0
    /\ detached = NoRoi
    /\ last_point = None
    /\ resize_handle = NoHandle
    /\ scale_factor = <<1, 1>>
    /\ roi_counter = 0
    /\ disk = <<>>
    /\ ev = [kind |-> "init", pos |-> None]
    /\ nevents = 0

\* The object selected_roi refers to.
SelObj == IF selected_roi > 0 THEN roi_list[selected_roi] ELSE detached

\* An in-place change of the selected object.
SetSelObj(obj) ==
    IF selected_roi > 0
    THEN /\ roi_list' = [roi_list EXCEPT ![selected_roi] = obj]
         /\ detached' = detached
    ELSE /\ roi_list' = roi_list
         /\ detached' = obj

\* ---------------------------------------------------------- rendering
\* update_image: whether the pixmap set on the label is non-null.  Without
\* an image it returns before setPixmap.
update_image(img, scale, old) ==
    IF img = None THEN old
    ELSE /\ img # NullImage
         /\ IntMul(img[1], scale) > 0
         /\ IntMul(img[2], scale) > 0

\* fit_to_screen's scale factor for a label of size label.
FitScale(img, label) == FracMin(Frac(label[1], img[1]), Frac(label[2], img[2]))

\* ------------------------------------------------------ coordinate mapper
\* map_to_image_coordinates with the far bounds compared by > instead of >=.
map_to_image_coordinates_gt(pos, img, scale) ==
    LET scaled_width == IntMul(img[1], scale)
        scaled_height == IntMul(img[2], scale)
        original_x == IntDiv(pos[1], scale)
        original_y == IntDiv(pos[2], scale)
    IN  IF img = None THEN pos
        ELSE IF pos[1] < 0 \/ pos[1] > scaled_width \/ pos[2] < 0 \/ pos[2] > scaled_height
        THEN None
        ELSE <<Max(0, Min(original_x, img[1] - 1)), Max(0, Min(original_y, img[2] - 1))>>

\* map_to_image_coordinates for a handler that passed its pixmap guard.
map_to_image_coordinates(pos, img, scale) ==
    LET scaled_width == IntMul(img[1], scale)
        scaled_height == IntMul(img[2], scale)
        original_x == IntDiv(pos[1], scale)
        original_y == IntDiv(pos[2], scale)
    IN  IF img = None THEN pos
        ELSE IF pos[1] < 0 \/ pos[1] >= scaled_width \/ pos[2] < 0 \/ pos[2] >= scaled_height
        THEN None
        ELSE <<Max(0, Min(original_x, img[1] - 1)), Max(0, Min(original_y, img[2] - 1))>>

\* A mapper that clamps an off-image position into the image instead of
\* returning None.
MapPosClamped(p) ==
    IF image = None THEN p
    ELSE <<Max(0, Min(IntDiv(Max(0, p[1]), scale_factor), image[1] - 1)),
           Max(0, Min(IntDiv(Max(0, p[2]), scale_factor), image[2] - 1))>>

\* The handlers' call: pos = self.map_to_image_coordinates(event.pos()).
MapPos(p) == map_to_image_coordinates(p, image, scale_factor)


\* -------------------------------------------------------- pointer events
\* The index of the first ROI of the list that the press at pos lands on
\* (handle, edge or body), 0 when there is none.
FirstHit(list, pos) ==
    LET hit == {i \in DOMAIN list :
                    \/ is_on_handle(list[i], pos) # NoHandle
                    \/ is_near_edge(list[i], pos) # NoHandle
                    \/ contains(list[i], pos)}
    IN  IF hit = {} THEN 0 ELSE CHOOSE i \in hit : \A j \in hit : i <= j

\* The index of the last ROI of the list whose body holds pos, 0 when none.
LastBody(list, pos) ==
    LET hit == {i \in DOMAIN list : contains(list[i], pos)}
    IN  IF hit = {} THEN 0 ELSE CHOOSE i \in hit : \A j \in hit : i >= j

\* The index of the first ROI of the list whose body holds pos, 0 when none.
FirstBody(list, pos) ==
    LET hit == {i \in DOMAIN list : contains(list[i], pos)}
    IN  IF hit = {} THEN 0 ELSE CHOOSE i \in hit : \A j \in hit : i <= j

\* The gesture a press on roi at pos starts: the handle, else the edge,
\* else none (a move).
PressTarget(roi, pos) ==
    IF is_on_handle(roi, pos) # NoHandle THEN is_on_handle(roi, pos)
    ELSE is_near_edge(roi, pos)

\* The copy the duplicate icon makes of roi, the counter incremented to n.
DuplicateOf(roi, n) ==
    [NewRoi(<<roi.start[1] + DuplicateOffset, roi.start[2] + DuplicateOffset>>,
            <<roi.end[1] + DuplicateOffset, roi.end[2] + DuplicateOffset>>, FALSE, n)
        EXCEPT !.description = roi.description, !.tags = roi.tags]

\* mousePressEvent, the gear icon of the selection pressed.
PressGear(session) ==
    /\ SetSelObj(EditorExec(SelObj, session))
    /\ pixmap' = IF session.ok THEN update_image(image, scale_factor, pixmap) ELSE pixmap
    /\ UNCHANGED <<image, image_path, drawing, selected_roi, last_point,
                   resize_handle, scale_factor, roi_counter, disk>>

\* mousePressEvent, the duplicate icon of the selection pressed.
PressDuplicate ==
    /\ roi_counter < MaxCounter
    /\ roi_counter' = roi_counter + 1
    /\ roi_list' = Append(roi_list, DuplicateOf(SelObj, roi_counter + 1))
    /\ selected_roi' = Len(roi_list) + 1
    /\ detached' = NoRoi
    /\ pixmap' = update_image(image, scale_factor, pixmap)
    /\ UNCHANGED <<image, image_path, drawing, last_point, resize_handle,
                   scale_factor, disk>>

\* mousePressEvent, the loop over roi_list found the k-th ROI.
PressExisting(k, pos) ==
    /\ resize_handle' = IF PressTarget(roi_list[k], pos) # NoHandle
                        THEN PressTarget(roi_list[k], pos) ELSE resize_handle
    /\ selected_roi' = k
    /\ detached' = NoRoi
    /\ last_point' = pos
    /\ pixmap' = update_image(image, scale_factor, pixmap)
    /\ UNCHANGED <<image, image_path, drawing, roi_list, scale_factor,
                   roi_counter, disk>>

\* PressBackground without the reset of resize_handle.
PressBackground_keep(pos) ==
    /\ roi_counter < MaxCounter
    /\ roi_counter' = roi_counter + 1
    /\ drawing' = TRUE
    /\ roi_list' = Append(roi_list, NewRoi(pos, pos, TRUE, roi_counter + 1))
    /\ selected_roi' = Len(roi_list) + 1
    /\ detached' = NoRoi
    /\ UNCHANGED <<image, image_path, pixmap, last_point, resize_handle,
                   scale_factor, disk>>

\* mousePressEvent, no ROI clicked: a new ROI, both corners the one QPoint.
PressBackground(pos) ==
    /\ roi_counter < MaxCounter
    /\ roi_counter' = roi_counter + 1
    /\ drawing' = TRUE
    /\ roi_list' = Append(roi_list, NewRoi(pos, pos, TRUE, roi_counter + 1))
    /\ selected_roi' = Len(roi_list) + 1
    /\ detached' = NoRoi
    /\ resize_handle' = NoHandle
    /\ UNCHANGED <<image, image_path, pixmap, last_point, scale_factor, disk>>

mousePressEvent(p, session) ==
    LET pos == MapPos(p)
        icon_clicked == IF selected_roi # 0
                        THEN is_on_icon(SelObj, pos, scale_factor) ELSE "None"
    IN  IF ~pixmap \/ pos = None THEN UNCHANGED pvars
        ELSE IF icon_clicked = "gear" THEN PressGear(session)
        ELSE IF icon_clicked = "duplicate" THEN PressDuplicate
        ELSE IF FirstHit(roi_list, pos) # 0 THEN PressExisting(FirstHit(roi_list, pos), pos)
        ELSE PressBackground(pos)


\* bool(QPoint): a QPoint is false when it is the null point (0, 0).
QPointTrue(pt) == pt # None /\ pt # <<0, 0>>

\* What a resize step adds to start and to end: <<sx, sy, ex, ey>>.
ResizeDelta(handle, dx, dy) ==
    CASE handle = "top_left" -> <<dx, dy, 0, 0>>
      [] handle = "top_right" -> <<0, dy, dx, 0>>
      [] handle = "bottom_left" -> <<dx, 0, 0, dy>>
      [] handle = "bottom_right" -> <<0, 0, dx, dy>>
      [] handle = "left" -> <<dx, 0, 0, 0>>
      [] handle = "right" -> <<0, 0, dx, 0>>
      [] handle = "top" -> <<0, dy, 0, 0>>
      [] handle = "bottom" -> <<0, 0, 0, dy>>
      [] OTHER -> <<0, 0, 0, 0>>

\* In-place additions d = <<sx, sy, ex, ey>> to roi.start and roi.end (+=,
\* setX, setY).  When start and end are one object it receives them all.
AddInPlace(roi, d) ==
    IF roi.shared
    THEN [roi EXCEPT !.start = <<roi.start[1] + d[1] + d[3], roi.start[2] + d[2] + d[4]>>,
                     !.end = <<roi.start[1] + d[1] + d[3], roi.start[2] + d[2] + d[4]>>]
    ELSE [roi EXCEPT !.start = <<roi.start[1] + d[1], roi.start[2] + d[2]>>,
                     !.end = <<roi.end[1] + d[3], roi.end[2] + d[4]>>]

\* mouseMoveEvent while drawing: the end of the selection is rebound to pos.
MoveDrawing(pos) ==
    IF selected_roi = 0
    THEN UNCHANGED pvars    \* AttributeError on None, caught and printed
    ELSE /\ SetSelObj([SelObj EXCEPT !.end = pos, !.shared = FALSE])
         /\ pixmap' = update_image(image, scale_factor, pixmap)
         /\ UNCHANGED <<image, image_path, drawing, selected_roi, last_point,
                        resize_handle, scale_factor, roi_counter, disk>>

\* mouseMoveEvent with a selection and a last point: resize or relocate.
MoveDragging(pos) ==
    LET dx == pos[1] - last_point[1]
        dy == pos[2] - last_point[2]
    IN  /\ SetSelObj(AddInPlace(SelObj, IF resize_handle # NoHandle
                                        THEN ResizeDelta(resize_handle, dx, dy)
                                        ELSE <<dx, dy, dx, dy>>))
        /\ last_point' = pos
        /\ pixmap' = update_image(image, scale_factor, pixmap)
        /\ UNCHANGED <<image, image_path, drawing, selected_roi, resize_handle,
                       scale_factor, roi_counter, disk>>

\* mouseMoveEvent with no gesture: the cursor and the pixmap are refreshed.
MoveHover ==
    /\ pixmap' = update_image(image, scale_factor, pixmap)
    /\ UNCHANGED <<image, image_path, drawing, roi_list, selected_roi, detached,
                   last_point, resize_handle, scale_factor, roi_counter, disk>>

mouseMoveEvent(p) ==
    LET pos == MapPos(p)
    IN  IF ~pixmap \/ pos = None THEN UNCHANGED pvars
        ELSE IF drawing THEN MoveDrawing(pos)
        ELSE IF selected_roi # 0 /\ QPointTrue(last_point) THEN MoveDragging(pos)
        ELSE MoveHover

\* mouseReleaseEvent without the reset of drawing.
mouseReleaseEvent_drawing ==
    /\ resize_handle' = NoHandle
    /\ last_point' = None
    /\ UNCHANGED <<image, image_path, pixmap, drawing, roi_list, selected_roi,
                   detached, scale_factor, roi_counter, disk>>

\* mouseReleaseEvent without the reset of last_point.
mouseReleaseEvent_keep ==
    /\ drawing' = FALSE
    /\ resize_handle' = NoHandle
    /\ UNCHANGED <<image, image_path, pixmap, roi_list, selected_roi, detached,
                   last_point, scale_factor, roi_counter, disk>>

mouseReleaseEvent ==
    /\ drawing' = FALSE
    /\ resize_handle' = NoHandle
    /\ last_point' = None
    /\ UNCHANGED <<image, image_path, pixmap, roi_list, selected_roi, detached,
                   scale_factor, roi_counter, disk>>

mouseDoubleClickEvent(p, session) ==
    LET pos == MapPos(p)
        k == FirstBody(roi_list, pos)
    IN  IF ~pixmap \/ pos = None \/ k = 0 THEN UNCHANGED pvars
        ELSE /\ selected_roi' = k
             /\ detached' = NoRoi
             /\ roi_list' = [roi_list EXCEPT ![k] = EditorExec(roi_list[k], session)]
             /\ pixmap' = IF session.ok THEN update_image(image, scale_factor, pixmap)
                          ELSE pixmap
             /\ UNCHANGED <<image, image_path, drawing, last_point, resize_handle,
                            scale_factor, roi_counter, disk>>


\* -------------------------------------------------------- the file system
\* QImage(path): the size of the image a path decodes to (null: no image).
ImageFile(path) ==
    CASE path = "a.png" -> <<80, 60>>
      [] path = "b.png" -> <<80, 60>>
      [] path = "c.png" -> <<400, 300>>
      [] OTHER -> NullImage

\* The files the open dialog offers in the explored runs.
ImagePaths == {"a.png", "missing.png"}

\* The sizes the image label can have when fit_to_screen reads it.
LabelSizes == {<<80, 60>>}

\* ------------------------------------------------------- toolbar commands
\* open_image with the dialog's file name ("" when the dialog is cancelled)
\* and the label size fit_to_screen reads.
open_image(file_name, label) ==
    IF file_name = "" THEN UNCHANGED pvars
    ELSE IF ImageFile(file_name) = NullImage
    THEN /\ image_path' = file_name
         /\ image' = NullImage
         /\ UNCHANGED <<pixmap, drawing, roi_list, selected_roi, detached, last_point,
                        resize_handle, scale_factor, roi_counter, disk>>
    ELSE /\ image_path' = file_name
         /\ image' = ImageFile(file_name)
         /\ scale_factor' = FitScale(ImageFile(file_name), label)
         /\ pixmap' = update_image(image', scale_factor', pixmap)
         /\ roi_list' = <<>>
         /\ roi_counter' = 0
         \* selected_roi keeps its object, which has left the list
         /\ selected_roi' = IF selected_roi = 0 THEN 0 ELSE -1
         /\ detached' = IF selected_roi = 0 THEN NoRoi ELSE SelObj
         /\ UNCHANGED <<drawing, last_point, resize_handle, disk>>

\* save_rois with the dialog's answer and whether the write succeeds.
save_rois(chosen, written) ==
    IF image_path = NoPath \/ roi_list = <<>> \/ ~chosen \/ ~written
    THEN UNCHANGED pvars
    ELSE /\ disk' = <<[json |-> TRUE, keys |-> {"image_path", "rois"},
                       image_path |-> image_path,
                       rois |-> [i \in DOMAIN roi_list |-> to_dict(roi_list[i])]]>>
         /\ UNCHANGED <<image, image_path, pixmap, drawing, roi_list, selected_roi,
                        detached, last_point, resize_handle, scale_factor, roi_counter>>

\* The number of leading entries of rois that from_dict builds before one
\* raises (all of them when none does).
RECURSIVE GoodPrefix(_)
GoodPrefix(rois) ==
    IF rois = <<>> \/ EntryRaises(Head(rois)) THEN 0 ELSE 1 + GoodPrefix(Tail(rois))

\* LoadSwitches with the answer to the question ignored.
LoadSwitches_always(file, yes) ==
    /\ file.json /\ "image_path" \in file.keys
    /\ image_path # file.image_path

\* load_rois up to the image check: does the user get asked, and does the
\* image get switched.
LoadSwitches(file, yes) ==
    /\ file.json /\ "image_path" \in file.keys
    /\ image_path # file.image_path
    /\ yes

\* Whether load_rois on this file ends in its except branch.
LoadFails(file, yes) ==
    \/ ~file.json
    \/ "image_path" \notin file.keys
    \/ LoadSwitches(file, yes) /\ ImageFile(file.image_path) = NullImage
    \/ "rois" \notin file.keys
    \/ GoodPrefix(file.rois) < Len(file.rois)

\* load_rois: the file chosen (cancelled: chosen = FALSE), the answer to the
\* question about a different image, the label size fit_to_screen reads.
load_rois(chosen, file, yes, label) ==
    IF ~chosen \/ ~file.json \/ "image_path" \notin file.keys
    THEN UNCHANGED pvars
    ELSE IF LoadSwitches(file, yes) /\ ImageFile(file.image_path) = NullImage
    THEN \* self.image is assigned before isNull() raises
         /\ image' = NullImage
         /\ UNCHANGED <<image_path, pixmap, drawing, roi_list, selected_roi, detached,
                        last_point, resize_handle, scale_factor, roi_counter, disk>>
    ELSE /\ IF LoadSwitches(file, yes)
            THEN /\ image' = ImageFile(file.image_path)
                 /\ image_path' = file.image_path
                 /\ scale_factor' = FitScale(ImageFile(file.image_path), label)
            ELSE UNCHANGED <<image, image_path, scale_factor>>
         /\ IF "rois" \notin file.keys
            THEN \* KeyError after the image was switched
                 /\ pixmap' = IF LoadSwitches(file, yes)
                              THEN update_image(image', scale_factor', pixmap) ELSE pixmap
                 /\ UNCHANGED <<roi_list, selected_roi, detached, roi_counter>>
            ELSE /\ roi_counter + GoodPrefix(file.rois) <= MaxCounter
                 /\ roi_counter' = roi_counter + GoodPrefix(file.rois)
                 /\ IF GoodPrefix(file.rois) < Len(file.rois)
                    THEN \* KeyError in from_dict: roi_list is not assigned
                         /\ pixmap' = IF LoadSwitches(file, yes)
                                      THEN update_image(image', scale_factor', pixmap)
                                      ELSE pixmap
                         /\ UNCHANGED <<roi_list, selected_roi, detached>>
                    ELSE /\ roi_list' = [i \in DOMAIN file.rois |->
                                            from_dict(file.rois[i], roi_counter + i)]
                         /\ selected_roi' = 0
                         /\ detached' = NoRoi
                         /\ pixmap' = update_image(image', scale_factor', pixmap)
         /\ UNCHANGED <<drawing, last_point, resize_handle, disk>>

delete_selected_roi ==
    IF selected_roi > 0
    THEN /\ roi_list' = RemoveAt(roi_list, selected_roi)
         /\ selected_roi' = 0
         /\ pixmap' = update_image(image, scale_factor, pixmap)
         /\ UNCHANGED <<image, image_path, drawing, detached, last_point,
                        resize_handle, scale_factor, roi_counter, disk>>
    ELSE UNCHANGED pvars

\* reset_counter
reset_counter == 0

\* clear_rois with the answer to the confirmation question.
clear_rois(yes) ==
    IF roi_list # <<>> /\ yes
    THEN /\ roi_list' = <<>>
         /\ selected_roi' = 0
         /\ detached' = NoRoi
         /\ roi_counter' = reset_counter
         /\ pixmap' = update_image(image, scale_factor, pixmap)
         /\ UNCHANGED <<image, image_path, drawing, last_point, resize_handle,
                        scale_factor, disk>>
    ELSE UNCHANGED pvars

\* scale_image(factor), factor a fraction.
\* scale_image with the factor's distance from 1 added instead of the
\* factor multiplied.
scale_image_additive(factor) ==
    LET sum == <<scale_factor[1] * factor[2] + scale_factor[2] * (factor[1] - factor[2]),
                 scale_factor[2] * factor[2]>>
        stepped == <<sum[1] \div Gcd(sum[1], sum[2]), sum[2] \div Gcd(sum[1], sum[2])>>
    IN  IF image = None THEN UNCHANGED pvars
        ELSE /\ stepped[1] <= MaxScaleTerm
             /\ stepped[2] <= MaxScaleTerm
             /\ scale_factor' = stepped
             /\ pixmap' = update_image(image, scale_factor', pixmap)
             /\ UNCHANGED <<image, image_path, drawing, roi_list, selected_roi, detached,
                            last_point, resize_handle, roi_counter, disk>>

scale_image(factor) ==
    IF image = None THEN UNCHANGED pvars
    ELSE /\ FracMul(scale_factor, factor)[1] <= MaxScaleTerm
         /\ FracMul(scale_factor, factor)[2] <= MaxScaleTerm
         /\ scale_factor' = FracMul(scale_factor, factor)
         /\ pixmap' = update_image(image, scale_factor', pixmap)
         /\ UNCHANGED <<image, image_path, drawing, roi_list, selected_roi, detached,
                        last_point, resize_handle, roi_counter, disk>>

zoom_in == scale_image(<<5, 4>>)
zoom_out == scale_image(<<4, 5>>)

\* fit_to_screen from the toolbar; on a null image the division by its width
\* raises before anything is assigned.
fit_to_screen(label) ==
    IF image = None \/ image = NullImage THEN UNCHANGED pvars
    ELSE /\ scale_factor' = FitScale(image, label)
         /\ pixmap' = update_image(image, scale_factor', pixmap)
         /\ UNCHANGED <<image, image_path, drawing, roi_list, selected_roi, detached,
                        last_point, resize_handle, roi_counter, disk>>


\* ----------------------------------------------------------------- inputs
\* Display positions of the pointer.  On "a.png" at scale 1 a ROI drawn
\* from (40,30) to (60,50) has its body at (50,40), its gear icon at
\* (50,20) and its duplicate icon at (30,20); (80,0) is past the right side.
DisplayPoints == {<<40, 30>>, <<60, 50>>, <<50, 40>>, <<50, 20>>, <<30, 20>>, <<80, 0>>}

\* What the user does in one run of the editor dialog: cancel; rename to the
\* name of the first ROI; describe and tag (typed with a leading blank).
CancelSession == [ok |-> FALSE, name |-> <<>>, description |-> <<>>, ops |-> <<>>]

AddTag(text) == [op |-> "add", text |-> text, row |-> 0]
RemoveTag(row) == [op |-> "remove", text |-> <<>>, row |-> row]

Sessions ==
    {CancelSession,
     [ok |-> TRUE, name |-> <<"ROI_1">>, description |-> <<>>, ops |-> <<>>],
     [ok |-> TRUE, name |-> <<>>, description |-> <<"d">>, ops |-> <<AddTag(<<" ", "a">>)>>]}

FileKeys == {"image_path", "rois"}

\* A ROI entry as written by a version without metadata, one without its
\* start corner, and one with metadata, as saved once ROI_1 was deleted.
LegacyEntry ==
    [keys |-> {"start", "end"}, start |-> <<40, 30>>, end |-> <<60, 50>>,
     name |-> "", description |-> "", tags |-> <<>>]
BrokenEntry ==
    [keys |-> {"end"}, start |-> None, end |-> <<60, 50>>,
     name |-> "", description |-> "", tags |-> <<>>]

FullEntry ==
    [keys |-> AllKeys, start |-> <<40, 30>>, end |-> <<60, 50>>,
     name |-> "ROI_2", description |-> "d", tags |-> << <<"a">> >>]

\* ROI files not written by this run: not JSON; without rois; naming an
\* image that cannot be read; with a broken second entry; without metadata.
ExternalFiles ==
    {[json |-> FALSE, keys |-> {}, image_path |-> NoPath, rois |-> <<>>],
     [json |-> TRUE, keys |-> {"image_path"}, image_path |-> "b.png", rois |-> <<>>],
     [json |-> TRUE, keys |-> FileKeys, image_path |-> "missing.png", rois |-> <<FullEntry>>],
     [json |-> TRUE, keys |-> FileKeys, image_path |-> "a.png",
      rois |-> <<LegacyEntry, BrokenEntry>>],
     [json |-> TRUE, keys |-> FileKeys, image_path |-> "a.png", rois |-> <<LegacyEntry>>]}

\* The files the load dialog can return.
LoadableFiles == Range(disk) \cup ExternalFiles

\* Whether the press at p opens the editor (the gear icon of the selection).
PressOpensEditor(p) ==
    /\ pixmap /\ MapPos(p) # None /\ selected_roi # 0
    /\ is_on_icon(SelObj, MapPos(p), scale_factor) = "gear"

\* Whether the double click at p opens the editor.
DoubleClickOpensEditor(p) ==
    /\ pixmap /\ MapPos(p) # None /\ FirstBody(roi_list, MapPos(p)) # 0

\* ----------------------------------------------------------------- events
Handled(kind, pos) ==
    /\ nevents < MaxEvents
    /\ nevents' = nevents + 1
    /\ ev' = [kind |-> kind, pos |-> pos]

MousePress ==
    \E p \in DisplayPoints :
        \E session \in IF PressOpensEditor(p) THEN Sessions ELSE {CancelSession} :
            mousePressEvent(p, session) /\ Handled("press", p)

MouseMove ==
    \E p \in DisplayPoints : mouseMoveEvent(p) /\ Handled("move", p)

MouseRelease == mouseReleaseEvent /\ Handled("release", None)

MouseDoubleClick ==
    \E p \in DisplayPoints :
        \E session \in IF DoubleClickOpensEditor(p) THEN Sessions ELSE {CancelSession} :
            mouseDoubleClickEvent(p, session) /\ Handled("doubleclick", p)

OpenImage ==
    \E file_name \in ImagePaths \cup {""}, label \in LabelSizes :
        open_image(file_name, label) /\ Handled("open", None)

SaveRois ==
    \E chosen \in BOOLEAN, written \in BOOLEAN :
        save_rois(chosen, written) /\ Handled("save", None)

\* The load dialog cancelled, or a file chosen and, when the user is asked
\* about a different image, the answer.
LoadChoices ==
    {<<FALSE, CHOOSE f \in ExternalFiles : TRUE, FALSE>>} \cup
    {<<TRUE, f, y>> : f \in LoadableFiles, y \in BOOLEAN}

LoadRois ==
    \E c \in LoadChoices, label \in LabelSizes :
        load_rois(c[1], c[2], c[3], label) /\ Handled("load", None)

DeleteSelectedRoi == delete_selected_roi /\ Handled("delete", None)

ClearRois == \E yes \in BOOLEAN : clear_rois(yes) /\ Handled("clear", None)

ZoomIn == zoom_in /\ Handled("zoom_in", None)

ZoomOut == zoom_out /\ Handled("zoom_out", None)

FitToScreen == \E label \in LabelSizes : fit_to_screen(label) /\ Handled("fit", None)

Next ==
    \/ MousePress
    \/ MouseMove
    \/ MouseRelease
    \/ MouseDoubleClick
    \/ OpenImage
    \/ SaveRois
    \/ LoadRois
    \/ DeleteSelectedRoi
    \/ ClearRois
    \/ ZoomIn
    \/ ZoomOut
    \/ FitToScreen

Spec == Init /\ [][Next]_vars


\* ------------------------------------------------- the end-to-end scenario
\* The handlers driven through draw-then-move on "c.png" (400 x 300): open,
\* press at image point (50,50), moves, the last one at (150,120), release;
\* press at (100,85), moves, the last one at (105,80), release.  ev.kind is
\* the position in the script.  The label is 1, 2 or 3 times the image.
E2ELabels == {<<400, 300>>, <<800, 600>>, <<1200, 900>>}

\* Image points the pointer passes over on its way; (-5,10) is off-image.
E2EPoints ==
    {<<50, 50>>, <<150, 120>>, <<100, 85>>, <<105, 80>>, <<60, 200>>, <<200, 40>>,
     <<399, 299>>, <<0, 0>>, <<-5, 10>>}

\* The display position of image point q at the (integer) scale factor.
E2EDisplay(q) ==
    <<(q[1] * scale_factor[1]) \div scale_factor[2],
      (q[2] * scale_factor[1]) \div scale_factor[2]>>

Step(kind, pos) ==
    /\ ev' = [kind |-> kind, pos |-> pos]
    /\ nevents' = nevents

E2EOpen ==
    /\ ev.kind = "init"
    /\ \E label \in E2ELabels : open_image("c.png", label)
    /\ Step("open", None)

E2EPress1 ==
    /\ ev.kind = "open"
    /\ mousePressEvent(E2EDisplay(<<50, 50>>), CancelSession)
    /\ Step("press1", E2EDisplay(<<50, 50>>))

E2EMove1 ==
    /\ ev.kind \in {"press1", "move1"}
    /\ \E q \in E2EPoints : mouseMoveEvent(E2EDisplay(q)) /\ Step("move1", E2EDisplay(q))

E2ERelease1 ==
    /\ ev = [kind |-> "move1", pos |-> E2EDisplay(<<150, 120>>)]
    /\ mouseReleaseEvent
    /\ Step("release1", None)

E2EPress2 ==
    /\ ev.kind = "release1"
    /\ mousePressEvent(E2EDisplay(<<100, 85>>), CancelSession)
    /\ Step("press2", E2EDisplay(<<100, 85>>))

E2EMove2 ==
    /\ ev.kind \in {"press2", "move2"}
    /\ \E q \in E2EPoints : mouseMoveEvent(E2EDisplay(q)) /\ Step("move2", E2EDisplay(q))

E2ERelease2 ==
    /\ ev = [kind |-> "move2", pos |-> E2EDisplay(<<105, 80>>)]
    /\ mouseReleaseEvent
    /\ Step("release2", None)

NextE2E ==
    \/ E2EOpen
    \/ E2EPress1
    \/ E2EMove1
    \/ E2ERelease1
    \/ E2EPress2
    \/ E2EMove2
    \/ E2ERelease2

SpecE2E == Init /\ [][NextE2E]_vars

\* ------------------------------------------- the coordinate mapper alone
\* map_to_image_coordinates applied to display points around the corners of
\* the scaled image, for image sizes and scale factors drawn at the start.
MapImages == {<<200, 100>>, <<80, 60>>, <<3, 2>>}
MapScales == {<<1, 1>>, <<2, 1>>, <<5, 4>>, <<4, 5>>}
MapPoints == {-1, 0, 1, 2, 3, 4, 399, 400} \X {-1, 0, 1, 2, 3, 199, 200}

InitMap ==
    /\ image \in MapImages
    /\ scale_factor \in MapScales
    /\ pixmap = TRUE
    /\ image_path = NoPath
    /\ drawing = FALSE
    /\ roi_list = <<>>
    /\ selected_roi = 0
    /\ detached = NoRoi
    /\ last_point = None
    /\ resize_handle = NoHandle
    /\ roi_counter = 0
    /\ disk = <<>>
    /\ ev = [kind |-> "init", pos |-> None, result |-> None]
    /\ nevents = 0

MapToImage ==
    /\ \E p \in MapPoints :
           ev' = [kind |-> "map", pos |-> p,
                  result |-> map_to_image_coordinates(p, image, scale_factor)]
    /\ UNCHANGED <<pvars, nevents>>

NextMap == MapToImage

SpecMap == InitMap /\ [][NextMap]_vars

\* ------------------------------------------------- pointer events alone
\* The three pointer handlers on "a.png", opened at scale 1 and either left
\* empty or filled by load_rois from the file without metadata, with no
\* toolbar command in between; presses may follow one another without a
\* release (mousePressEvent does not look at the button).  ev.drawn
\* remembers the index of the ROI that the latest background press created.
MaxPointerEvents == 4

PointerPoints == DisplayPoints \cup {<<0, 0>>}

InitPointer ==
    /\ image = ImageFile("a.png")
    /\ image_path = "a.png"
    /\ pixmap = TRUE
    /\ drawing = FALSE
    /\ roi_list \in {<<>>, <<from_dict(LegacyEntry, 1)>>}
    /\ selected_roi = 0
    /\ detached = NoRoi
    /\ last_point = None
    /\ resize_handle = NoHandle
    /\ scale_factor = <<1, 1>>
    /\ roi_counter = Len(roi_list)
    /\ disk = <<>>
    /\ ev = [kind |-> "open", pos |-> None, drawn |-> 0]
    /\ nevents = 0

Observed(kind, pos) ==
    /\ nevents < MaxPointerEvents
    /\ nevents' = nevents + 1
    /\ ev' = [kind |-> kind, pos |-> pos,
              drawn |-> IF /\ kind = "press"
                           /\ Len(roi_list') = Len(roi_list) + 1
                           /\ roi_list'[Len(roi_list')].shared
                        THEN Len(roi_list')
                        ELSE ev.drawn]

PointerPress ==
    \E p \in PointerPoints : mousePressEvent(p, CancelSession) /\ Observed("press", p)

PointerMove ==
    \E p \in PointerPoints : mouseMoveEvent(p) /\ Observed("move", p)

PointerRelease == mouseReleaseEvent /\ Observed("release", None)

NextPointer ==
    \/ PointerPress
    \/ PointerMove
    \/ PointerRelease

SpecPointer == InitPointer /\ [][NextPointer]_vars

\* ------------------------------------------------ the resize round trip
\* On "c.png": a ROI is drawn between (100,100) and (149,149), in either
\* direction, and released; when its normalized rect is (100,100,50,50) its
\* right edge is pressed at (149,125) and dragged along y = 125.  A pointer
\* cannot leave the image, so the 70 pixels of the drag to the left need
\* the rect to stand 100 pixels into the image.
ResizeCorners == {<<100, 100>>, <<150, 150>>, <<149, 149>>, <<99, 99>>}
ResizeStops == {<<79, 125>>, <<149, 125>>, <<120, 125>>, <<219, 125>>}

ResizeOpen ==
    /\ ev.kind = "init"
    /\ \E label \in E2ELabels : open_image("c.png", label)
    /\ Step("open", None)

ResizeDrawPress ==
    /\ ev.kind = "open"
    /\ \E q \in ResizeCorners :
           mousePressEvent(E2EDisplay(q), CancelSession) /\ Step("draw", E2EDisplay(q))

ResizeDrawMove ==
    /\ ev.kind = "draw"
    /\ \E q \in ResizeCorners :
           mouseMoveEvent(E2EDisplay(q)) /\ Step("draw", E2EDisplay(q))

ResizeDrawRelease ==
    /\ ev.kind = "draw"
    /\ mouseReleaseEvent
    /\ Step("drawn", None)

ResizePress ==
    /\ ev.kind = "drawn"
    /\ <<Left(get_rect(roi_list[1])), Top(get_rect(roi_list[1])),
         Width(get_rect(roi_list[1])), Height(get_rect(roi_list[1]))>> = <<100, 100, 50, 50>>
    /\ mousePressEvent(E2EDisplay(<<149, 125>>), CancelSession)
    /\ Step("grab", E2EDisplay(<<149, 125>>))

ResizeMove ==
    /\ ev.kind \in {"grab", "resize"}
    /\ \E q \in ResizeStops :
           mouseMoveEvent(E2EDisplay(q)) /\ Step("resize", E2EDisplay(q))

ResizeRelease ==
    /\ ev.kind = "resize"
    /\ mouseReleaseEvent
    /\ Step("resized", None)

NextResize ==
    \/ ResizeOpen
    \/ ResizeDrawPress
    \/ ResizeDrawMove
    \/ ResizeDrawRelease
    \/ ResizePress
    \/ ResizeMove
    \/ ResizeRelease

SpecResize == Init /\ [][NextResize]_vars

\* ----------------------------------------------- the editor dialog alone
\* ROIEditorDialog opened again and again from the gear icon of one
\* selected ROI: in each session the user types tags (with or without
\* blanks around them, possibly the same text again), removes rows, and
\* ends with OK or Cancel.
MaxTagOps == 3

TagTexts == {<<"a">>, <<" ", "a">>, <<"b">>, <<" ">>, <<>>}

TagOps == {AddTag(t) : t \in TagTexts} \cup {RemoveTag(1), RemoveTag(2)}

RECURSIVE TagOpSeqs(_)
TagOpSeqs(n) ==
    IF n = 0 THEN {<<>>}
    ELSE TagOpSeqs(n - 1) \cup {Append(q, o) : q \in TagOpSeqs(n - 1), o \in TagOps}

EditorSessions ==
    {[ok |-> ok, name |-> <<>>, description |-> d, ops |-> ops] :
        ok \in BOOLEAN, d \in {<<>>, <<"d">>}, ops \in TagOpSeqs(MaxTagOps)}

InitEditor ==
    /\ image = ImageFile("a.png")
    /\ image_path = "a.png"
    /\ pixmap = TRUE
    /\ drawing = FALSE
    /\ roi_list \in {<<from_dict(LegacyEntry, 1)>>, <<from_dict(FullEntry, 1)>>}
    /\ selected_roi = 1
    /\ detached = NoRoi
    /\ last_point = None
    /\ resize_handle = NoHandle
    /\ scale_factor = <<1, 1>>
    /\ roi_counter = 1
    /\ disk = <<>>
    /\ ev = [kind |-> "select", pos |-> None]
    /\ nevents = 0

EditorSession ==
    \E session \in EditorSessions :
        /\ mousePressEvent(<<50, 20>>, session)
        /\ Step(IF session.ok THEN "accept" ELSE "cancel", <<50, 20>>)

NextEditor == EditorSession

SpecEditor == InitEditor /\ [][NextEditor]_vars

\* --------------------------------------------------- presses on corners
\* On "c.png" at scale 1, one ROI as load_rois builds it from a file, its
\* start and end anywhere on a small grid (so that rects narrower than,
\* equal to and wider than the grab handle occur, in both directions), and
\* presses on the four corners and on the centre of its normalized rect.
CornerGrid == {10, 15, 17, 109} \X {10, 15, 109}

\* The corner of rect that a handle is named after.
Corner(rect, name) ==
    CASE name = "top_left" -> <<Left(rect), Top(rect)>>
      [] name = "top_right" -> <<Right(rect), Top(rect)>>
      [] name = "bottom_left" -> <<Left(rect), Bottom(rect)>>
      [] name = "bottom_right" -> <<Right(rect), Bottom(rect)>>

CornerTargets(rect) ==
    {Corner(rect, HandleNames[n]) : n \in 1..4} \cup
    {<<(Left(rect) + Right(rect)) \div 2, (Top(rect) + Bottom(rect)) \div 2>>}

InitCorner ==
    /\ image = ImageFile("c.png")
    /\ image_path = "c.png"
    /\ pixmap = TRUE
    /\ drawing = FALSE
    /\ \E s \in CornerGrid, e \in CornerGrid :
           roi_list = <<from_dict([keys |-> {"start", "end"}, start |-> s, end |-> e,
                                   name |-> "", description |-> "", tags |-> <<>>], 1)>>
    /\ selected_roi = 0
    /\ detached = NoRoi
    /\ last_point = None
    /\ resize_handle = NoHandle
    /\ scale_factor = <<1, 1>>
    /\ roi_counter = 1
    /\ disk = <<>>
    /\ ev = [kind |-> "load", pos |-> None]
    /\ nevents = 0

CornerPress ==
    \E p \in CornerTargets(get_rect(roi_list[1])) :
        mousePressEvent(p, CancelSession) /\ Step("press", p)

CornerRelease == ev.kind = "press" /\ mouseReleaseEvent /\ Step("release", None)

NextCorner ==
    \/ CornerPress
    \/ CornerRelease

SpecCorner == InitCorner /\ [][NextCorner]_vars

\* ------------------------------------------------------ loading ROI files
\* From start-up: "a.png" opened, ROIs made and selected by presses, and
\* ROI files loaded, the file, the answer to the question about a different
\* image and the selection before the load recorded in ev.  The files name the current image,
\* another readable image or an unreadable one, and hold one or two ROIs.
MaxLoadEvents == 4

LoadFiles ==
    {[json |-> TRUE, keys |-> FileKeys, image_path |-> path, rois |-> rois] :
        path \in {"a.png", "c.png", "missing.png"},
        rois \in {<<FullEntry>>, <<FullEntry, LegacyEntry>>}}

LoadPoints == {<<30, 20>>, <<50, 40>>}

Noted(kind) ==
    /\ nevents < MaxLoadEvents
    /\ nevents' = nevents + 1
    /\ ev' = [kind |-> kind, pos |-> None]

LoadOpenImage == \E label \in LabelSizes : open_image("a.png", label) /\ Noted("open")

LoadPress == \E p \in LoadPoints : mousePressEvent(p, CancelSession) /\ Noted("press")

LoadRelease == mouseReleaseEvent /\ Noted("release")

LoadFile ==
    \E file \in LoadFiles, yes \in BOOLEAN, label \in LabelSizes :
        /\ load_rois(TRUE, file, yes, label)
        /\ nevents < MaxLoadEvents
        /\ nevents' = nevents + 1
        /\ ev' = [kind |-> "load", pos |-> None, file |-> file, yes |-> yes,
                  before |-> selected_roi]

NextLoad ==
    \/ LoadOpenImage
    \/ LoadPress
    \/ LoadRelease
    \/ LoadFile

SpecLoad == Init /\ [][NextLoad]_vars

\* ---------------------------------------------------------- double clicks
\* "a.png" at scale 1 with the ROIs of a loaded file: one ROI, or two that
\* overlap (the second where the duplicate icon would put a copy of the
\* first), any of them or none selected; then presses, moves, releases and
\* double clicks on the overlap, on each ROI alone and on the background.
OverlapEntry ==
    [keys |-> {"start", "end"}, start |-> <<50, 40>>, end |-> <<70, 59>>,
     name |-> "", description |-> "", tags |-> <<>>]

DoublePoints == {<<55, 45>>, <<45, 35>>, <<65, 55>>, <<30, 20>>}

InitDouble ==
    /\ image = ImageFile("a.png")
    /\ image_path = "a.png"
    /\ pixmap = TRUE
    /\ drawing = FALSE
    /\ roi_list \in {<<from_dict(LegacyEntry, 1)>>,
                     <<from_dict(LegacyEntry, 1), from_dict(OverlapEntry, 2)>>}
    /\ selected_roi \in 0..Len(roi_list)
    /\ detached = NoRoi
    /\ last_point = None
    /\ resize_handle = NoHandle
    /\ scale_factor = <<1, 1>>
    /\ roi_counter = Len(roi_list)
    /\ disk = <<>>
    /\ ev = [kind |-> "load", pos |-> None]
    /\ nevents = 0

DoublePress ==
    \E p \in DoublePoints : mousePressEvent(p, CancelSession) /\ Handled("press", p)

DoubleMove == \E p \in DoublePoints : mouseMoveEvent(p) /\ Handled("move", p)

DoubleRelease == mouseReleaseEvent /\ Handled("release", None)

DoubleClick ==
    \E p \in DoublePoints :
        \E session \in IF DoubleClickOpensEditor(p) THEN Sessions ELSE {CancelSession} :
            mouseDoubleClickEvent(p, session) /\ Handled("doubleclick", p)

NextDouble ==
    \/ DoublePress
    \/ DoubleMove
    \/ DoubleRelease
    \/ DoubleClick

SpecDouble == InitDouble /\ [][NextDouble]_vars

\* ----------------------------------------------------------- move gestures
\* The pointer events of SpecPointer, with the gesture a press on a ROI's
\* body starts recorded in ev.gesture: the press point, the corners the ROI
\* had then, and the last on-image position the pointer has had since.  A
\* release leaves the record for the state after it; the next event
\* replaces or clears it.
NoGesture == [point |-> None, start |-> None, end |-> None, seen |-> None]

InitMove ==
    /\ image = ImageFile("a.png")
    /\ image_path = "a.png"
    /\ pixmap = TRUE
    /\ drawing = FALSE
    /\ roi_list \in {<<>>, <<from_dict(LegacyEntry, 1)>>}
    /\ selected_roi = 0
    /\ detached = NoRoi
    /\ last_point = None
    /\ resize_handle = NoHandle
    /\ scale_factor = <<1, 1>>
    /\ roi_counter = Len(roi_list)
    /\ disk = <<>>
    /\ ev = [kind |-> "open", pos |-> None, gesture |-> NoGesture]
    /\ nevents = 0

Tracked(kind, pos, gesture) ==
    /\ nevents < MaxPointerEvents
    /\ nevents' = nevents + 1
    /\ ev' = [kind |-> kind, pos |-> pos, gesture |-> gesture]

\* Whether the press at display point p reaches the body branch of the
\* loop in mousePressEvent with no handle left from an earlier press.
StartsMove(p) ==
    /\ pixmap
    /\ MapPos(p) # None
    /\ selected_roi # 0 => is_on_icon(SelObj, MapPos(p), scale_factor) = "None"
    /\ FirstHit(roi_list, MapPos(p)) # 0
    /\ PressTarget(roi_list[FirstHit(roi_list, MapPos(p))], MapPos(p)) = NoHandle
    /\ resize_handle = NoHandle
    /\ ~drawing

MovePress ==
    \E p \in PointerPoints :
        /\ mousePressEvent(p, CancelSession)
        /\ Tracked("press", p,
                   IF StartsMove(p)
                   THEN [point |-> MapPos(p),
                         start |-> roi_list[FirstHit(roi_list, MapPos(p))].start,
                         end |-> roi_list[FirstHit(roi_list, MapPos(p))].end,
                         seen |-> MapPos(p)]
                   ELSE NoGesture)

MoveMove ==
    \E p \in PointerPoints :
        /\ mouseMoveEvent(p)
        /\ Tracked("move", p,
                   IF ev.kind = "release" THEN NoGesture
                   ELSE IF ev.gesture # NoGesture /\ MapPos(p) # None
                   THEN [ev.gesture EXCEPT !.seen = MapPos(p)]
                   ELSE ev.gesture)

MoveRelease == mouseReleaseEvent /\ Tracked("release", None, ev.gesture)

NextMove ==
    \/ MovePress
    \/ MoveMove
    \/ MoveRelease

SpecMove == InitMove /\ [][NextMove]_vars

\* ------------------------------------------------------------------ zoom
\* "a.png" at scale 1 with one loaded ROI: presses (which select, start a
\* gesture or draw), moves, and the three zoom commands in any order.
MaxZoomEvents == 5

ZoomPoints == {<<50, 40>>, <<30, 20>>}

InitZoom ==
    /\ image = ImageFile("a.png")
    /\ image_path = "a.png"
    /\ pixmap = TRUE
    /\ drawing = FALSE
    /\ roi_list = <<from_dict(LegacyEntry, 1)>>
    /\ selected_roi = 0
    /\ detached = NoRoi
    /\ last_point = None
    /\ resize_handle = NoHandle
    /\ scale_factor = <<1, 1>>
    /\ roi_counter = 1
    /\ disk = <<>>
    /\ ev = [kind |-> "load", pos |-> None]
    /\ nevents = 0

Zoomed(kind, pos) ==
    /\ nevents < MaxZoomEvents
    /\ nevents' = nevents + 1
    /\ ev' = [kind |-> kind, pos |-> pos]

ZoomPress ==
    \E p \in ZoomPoints : mousePressEvent(p, CancelSession) /\ Zoomed("press", p)

ZoomMove == \E p \in ZoomPoints : mouseMoveEvent(p) /\ Zoomed("move", p)

ZoomStepIn == zoom_in /\ Zoomed("zoom_in", None)

ZoomStepOut == zoom_out /\ Zoomed("zoom_out", None)

ZoomFit == \E label \in LabelSizes : fit_to_screen(label) /\ Zoomed("fit", None)

NextZoom ==
    \/ ZoomPress
    \/ ZoomMove
    \/ ZoomStepIn
    \/ ZoomStepOut
    \/ ZoomFit

SpecZoom == InitZoom /\ [][NextZoom]_vars

\* ------------------------------------------------------------ properties
\* <<x, y, width, height>> of a rectangle.
RectXYWH(r) == <<Left(r), Top(r), Width(r), Height(r)>>

\* The display pixel p lies wholly inside the extent [0, w*s] x [0, h*s] of
\* the scaled image, i.e. inside [0, trunc(w*s)) x [0, trunc(h*s)).
OnPixmap(p, img, scale) ==
    /\ 0 <= p[1] /\ (p[1] + 1) * scale[2] <= img[1] * scale[1]
    /\ 0 <= p[2] /\ (p[2] + 1) * scale[2] <= img[2] * scale[1]

\* The display point p lies inside [0, w*s) x [0, h*s).
InScaledExtent(p, img, scale) ==
    /\ 0 <= p[1] /\ p[1] * scale[2] < img[1] * scale[1]
    /\ 0 <= p[2] /\ p[2] * scale[2] < img[2] * scale[1]

\* r is v / s truncated and clamped into [0, size - 1].
IsTruncClamped(r, v, size, scale) ==
    \E t \in 0..(v * scale[2]) :
        /\ t * scale[1] <= v * scale[2]
        /\ v * scale[2] < (t + 1) * scale[1]
        /\ r = Max(0, Min(t, size - 1))

\* C1: in every reachable state the selection is none or a ROI that is a
\* member of the collection.
C1_SelectionInCollection == selected_roi = 0 \/ selected_roi \in DOMAIN roi_list

\* C2: in every reachable state no two ROIs of the collection have the
\* same name.
C2_NamesUnique ==
    \A i, j \in DOMAIN roi_list : roi_list[i].name = roi_list[j].name => i = j

\* C3: in the end-to-end scenario the first release leaves exactly one
\* ROI with normalized rect (50,50,100,70) and the second release leaves
\* that single ROI with normalized rect (55,45,100,70).
C3_EndToEnd ==
    /\ ev.kind = "release1" =>
           /\ Len(roi_list) = 1
           /\ RectXYWH(get_rect(roi_list[1])) = <<50, 50, 100, 70>>
    /\ ev.kind = "release2" =>
           /\ Len(roi_list) = 1
           /\ RectXYWH(get_rect(roi_list[1])) = <<55, 45, 100, 70>>

\* C4: in every reachable state get_rect() of every ROI in the collection
\* has width >= 0 and height >= 0, whatever the order of start and end.
C4_RectNonNegative ==
    \A i \in DOMAIN roi_list :
        Width(get_rect(roi_list[i])) >= 0 /\ Height(get_rect(roi_list[i])) >= 0

\* C4 happens: a resize has dragged the end corner of a ROI past its start.
C4_InvertedByResize ==
    /\ ev.kind = "move"
    /\ resize_handle # NoHandle
    /\ \E i \in DOMAIN roi_list :
           /\ roi_list[i].end[1] < roi_list[i].start[1] - 1
           /\ roi_list[i].end[2] < roi_list[i].start[2] - 1

\* C5: normalization is symmetric and idempotent: every ROI has the same
\* normalized rect as the ROI with start and end swapped, and normalizing
\* its normalized rect changes nothing.
C5_SymmetricIdempotent ==
    \A i \in DOMAIN roi_list :
        LET roi == roi_list[i]
            swapped == [roi EXCEPT !.start = roi.end, !.end = roi.start]
        IN  /\ RectXYWH(get_rect(roi)) = RectXYWH(get_rect(swapped))
            /\ Normalized(get_rect(roi)) = get_rect(roi)

\* C6 as stated: the mapper returns none exactly when the display point
\* lies outside [0, w*s) x [0, h*s), otherwise the truncated and clamped
\* quotient.
C6_MapperAsStated ==
    ev.kind = "map" =>
        /\ ev.result = None <=> ~InScaledExtent(ev.pos, image, scale_factor)
        /\ ev.result # None =>
               /\ IsTruncClamped(ev.result[1], ev.pos[1], image[1], scale_factor)
               /\ IsTruncClamped(ev.result[2], ev.pos[2], image[2], scale_factor)

\* C6 amended: the mapper returns none exactly when the display point lies
\* outside [0, trunc(w*s)) x [0, trunc(h*s)), otherwise (trunc(x/s),
\* trunc(y/s)) clamped into [0,w-1] x [0,h-1]; with (w,h) = (200,100) and
\* s = 2, (399,199) maps to (199,99) and (400,0) to none.
C6_Mapper ==
    ev.kind = "map" =>
        /\ ev.result = None <=> ~OnPixmap(ev.pos, image, scale_factor)
        /\ ev.result # None =>
               /\ IsTruncClamped(ev.result[1], ev.pos[1], image[1], scale_factor)
               /\ IsTruncClamped(ev.result[2], ev.pos[2], image[2], scale_factor)
        /\ (image = <<200, 100>> /\ scale_factor = <<2, 1>>) =>
               /\ ev.pos = <<399, 199>> => ev.result = <<199, 99>>
               /\ ev.pos = <<400, 0>> => ev.result = None

\* C6 happens: the last pixel of the 200 x 100 image shown at scale 2.
C6_LastPixelMapped ==
    /\ ev.kind = "map"
    /\ image = <<200, 100>> /\ scale_factor = <<2, 1>>
    /\ ev.pos = <<399, 199>>
    /\ ev.result = <<199, 99>>

\* C7: a press or a move at an off-image display point changes neither the
\* collection, nor any ROI, nor the selection, nor drawing, last_point and
\* resize_handle.
C7_OffImageNoOp ==
    [][(/\ ev'.kind \in {"press", "move"}
        /\ image # None
        /\ ~OnPixmap(ev'.pos, image, scale_factor))
       => UNCHANGED <<roi_list, selected_roi, detached, drawing, last_point,
                      resize_handle>>]_vars

\* C7 happens: an off-image move in the middle of a drag of the selection.
C7_OffImageMoveWhileDragging ==
    /\ ev.kind = "move"
    /\ image # None
    /\ ~OnPixmap(ev.pos, image, scale_factor)
    /\ ~drawing
    /\ selected_roi > 0
    /\ QPointTrue(last_point)

\* C8: a press on the duplicate icon of the selection appends exactly one
\* ROI, the source offset by (10,10) with the source's description and
\* tags and a name that no ROI of the collection has, selects it, and
\* leaves drawing, last_point and resize_handle unchanged.
C8_DuplicatePress ==
    [][(/\ ev'.kind = "press"
        /\ pixmap
        /\ MapPos(ev'.pos) # None
        /\ selected_roi # 0
        /\ is_on_icon(SelObj, MapPos(ev'.pos), scale_factor) = "duplicate")
       => /\ Len(roi_list') = Len(roi_list) + 1
          /\ SubSeq(roi_list', 1, Len(roi_list)) = roi_list
          /\ LET src == SelObj
                 new == roi_list'[Len(roi_list) + 1]
             IN  /\ new.start = <<src.start[1] + 10, src.start[2] + 10>>
                 /\ new.end = <<src.end[1] + 10, src.end[2] + 10>>
                 /\ new.description = src.description
                 /\ new.tags = src.tags
                 /\ \A i \in DOMAIN roi_list : roi_list[i].name # new.name
          /\ selected_roi' = Len(roi_list) + 1
          /\ UNCHANGED <<drawing, last_point, resize_handle>>]_vars

\* C9: after a confirmed clear-all, from any reachable state, the
\* collection is empty, the selection is none and the name counter is zero.
C9_ClearAllResets ==
    [][(ev'.kind = "clear" /\ clear_rois(TRUE))
       => (roi_list' = <<>> /\ selected_roi' = 0 /\ roi_counter' = 0)]_vars

\* C10: a load of a ROI file that fails leaves the collection, the
\* selection, the name counter, the image and the image path unchanged.
C10_FailedLoadChangesNothing ==
    [][\A c \in LoadChoices, label \in LabelSizes :
           (/\ ev'.kind = "load"
            /\ c[1]
            /\ LoadFails(c[2], c[3])
            /\ load_rois(c[1], c[2], c[3], label))
           => UNCHANGED <<roi_list, selected_roi, detached, roi_counter, image,
                          image_path>>]_vars

\* C11: in a resize gesture on the right edge of a ROI whose normalized
\* rect is 50 wide and 50 high, a move of dx = -70 yields a rect that
\* starts 20 left of the original and is 20 wide, the width is never
\* negative, and a following move of dx = +70 restores the original rect
\* and the original start and end.
C11_ResizeRoundTrip ==
    ev.kind = "resize" =>
        LET roi == roi_list[1]
            rect == get_rect(roi)
        IN  /\ Width(rect) >= 0
            /\ ev.pos = E2EDisplay(<<79, 125>>) =>
                   RectXYWH(rect) = <<80, 100, 20, 50>>
            /\ ev.pos = E2EDisplay(<<149, 125>>) =>
                   /\ RectXYWH(rect) = <<100, 100, 50, 50>>
                   /\ <<roi.start, roi.end>> \in {<<<<100, 100>>, <<149, 149>>>>,
                                                 <<<<150, 150>>, <<99, 99>>>>}

\* C12: converting every ROI of the collection with to_dict and rebuilding
\* each with from_dict yields a collection of the same length and order in
\* which each ROI has the same start, end, name, description and tags.
C12_RoundTrip ==
    LET dicts == [i \in DOMAIN roi_list |-> to_dict(roi_list[i])]
        rebuilt == [i \in DOMAIN dicts |-> from_dict(dicts[i], roi_counter + i)]
    IN  /\ Len(rebuilt) = Len(roi_list)
        /\ \A i \in DOMAIN roi_list :
               /\ rebuilt[i].start = roi_list[i].start
               /\ rebuilt[i].end = roi_list[i].end
               /\ rebuilt[i].name = roi_list[i].name
               /\ rebuilt[i].description = roi_list[i].description
               /\ rebuilt[i].tags = roi_list[i].tags

\* C12 happens: a collection holding a described and tagged ROI was saved.
C12_TaggedRoiSaved ==
    /\ ev.kind = "save"
    /\ disk # <<>>
    /\ disk[1].rois = [i \in DOMAIN roi_list |-> to_dict(roi_list[i])]
    /\ \E i \in DOMAIN roi_list :
           roi_list[i].tags # <<>> /\ roi_list[i].description # ""

\* C13: in every reachable state every ROI's tags list contains no
\* duplicate string and no string that is empty after trimming.
C13_TagsClean ==
    \A i \in DOMAIN roi_list :
        LET tags == roi_list[i].tags
        IN  /\ \A j, k \in DOMAIN tags : tags[j] = tags[k] => j = k
            /\ \A j \in DOMAIN tags : Strip(tags[j]) # <<>>

\* C14: for a ROI whose normalized rect is at least 6 wide and 6 high, a
\* point exactly on a corner of get_rect() is that corner's handle for
\* is_on_handle and for is_near_edge, contains() is false there, and a
\* press there starts a resize by that corner.
C14_CornerPrecedence ==
    \A i \in DOMAIN roi_list :
        LET roi == roi_list[i]
            rect == get_rect(roi)
        IN  (Width(rect) >= 6 /\ Height(rect) >= 6) =>
                \A n \in 1..4 :
                    LET name == HandleNames[n]
                        pt == Corner(rect, name)
                    IN  /\ is_on_handle(roi, pt) = name
                        /\ is_near_edge(roi, pt) = name
                        /\ ~contains(roi, pt)
                        /\ (ev.kind = "press" /\ ev.pos = pt /\ i = 1) =>
                               /\ selected_roi = 1
                               /\ resize_handle = name
                               /\ last_point = pt
                               /\ ~drawing

\* C14 happens: the ROI with rect (10,10,100,100) was pressed at (10,10).
C14_PressOnCorner ==
    /\ ev = [kind |-> "press", pos |-> <<10, 10>>]
    /\ RectXYWH(get_rect(roi_list[1])) = <<10, 10, 100, 100>>
    /\ resize_handle = "top_left"

\* A handled move of a resize gesture: on the image, not drawing, a ROI of
\* the collection selected, a last point that tests true, a handle or edge.
ResizeGestureMove ==
    /\ ev'.kind = "move"
    /\ nevents' = nevents + 1
    /\ MapPos(ev'.pos) # None
    /\ ~drawing
    /\ selected_roi > 0
    /\ QPointTrue(last_point)
    /\ resize_handle # NoHandle

\* C15: in a resize gesture a handled move with delta = point - last_point
\* adds the delta to exactly the coordinates listed for the target, leaves
\* the other coordinates of that ROI and every other ROI unchanged, and
\* sets last_point to the point; for every ROI of the collection, one made
\* by a press released with no move in between included.
C15_ResizeStep ==
    [][ResizeGestureMove =>
            LET pos == MapPos(ev'.pos)
                d == ResizeDelta(resize_handle, pos[1] - last_point[1],
                                 pos[2] - last_point[2])
                old == roi_list[selected_roi]
            IN  /\ DOMAIN roi_list' = DOMAIN roi_list
                /\ \A i \in DOMAIN roi_list : i # selected_roi => roi_list'[i] = roi_list[i]
                /\ roi_list'[selected_roi].start = <<old.start[1] + d[1], old.start[2] + d[2]>>
                /\ roi_list'[selected_roi].end = <<old.end[1] + d[3], old.end[2] + d[4]>>
                /\ roi_list'[selected_roi].name = old.name
                /\ last_point' = pos]_vars

\* A press on the image that hits no icon of the current selection.
PressOffIcons ==
    /\ ev'.kind = "press"
    /\ nevents' = nevents + 1
    /\ pixmap
    /\ MapPos(ev'.pos) # None
    /\ selected_roi # 0 => is_on_icon(SelObj, MapPos(ev'.pos), scale_factor) = "None"

\* C16: such a press at a point where some ROI is hit (handle, edge or
\* body) selects the first such ROI in collection order, sets last_point to
\* the point, starts a resize by the handle, else by the edge, else a move
\* (resize_handle none), and leaves the collection unchanged.
C16_PressOnExisting ==
    [][(PressOffIcons /\ FirstHit(roi_list, MapPos(ev'.pos)) # 0) =>
            LET pos == MapPos(ev'.pos)
                k == FirstHit(roi_list, pos)
            IN  /\ selected_roi' = k
                /\ last_point' = pos
                /\ resize_handle' = PressTarget(roi_list[k], pos)
                /\ roi_list' = roi_list
                /\ roi_counter' = roi_counter]_vars

\* A press on the image that hits no icon of the selection and no ROI.
PressOnBackground == PressOffIcons /\ FirstHit(roi_list, MapPos(ev'.pos)) = 0

\* A press on the duplicate icon of the selection.
PressOnDuplicateIcon ==
    /\ ev'.kind = "press"
    /\ pixmap
    /\ MapPos(ev'.pos) # None
    /\ selected_roi # 0
    /\ is_on_icon(SelObj, MapPos(ev'.pos), scale_factor) = "duplicate"

\* What a background press does: one ROI appended, start = end = the press
\* point, selected, drawing, no handle, the existing ROIs as they were.
BackgroundPressEffect ==
    LET pos == MapPos(ev'.pos)
        n == Len(roi_list)
    IN  /\ Len(roi_list') = n + 1
        /\ SubSeq(roi_list', 1, n) = roi_list
        /\ roi_list'[n + 1].start = pos
        /\ roi_list'[n + 1].end = pos
        /\ selected_roi' = n + 1
        /\ drawing'
        /\ resize_handle' = NoHandle

\* C17 as stated: a background press has that effect, and a press
\* lengthens the collection in no other case.
C17_OnlyBackgroundCreates ==
    [][(ev'.kind = "press" /\ nevents' = nevents + 1) =>
            /\ PressOnBackground => BackgroundPressEffect
            /\ Len(roi_list') > Len(roi_list) => PressOnBackground]_vars

\* C17: a background press has that effect, and a press lengthens the
\* collection only then or when it is on the duplicate icon of the selection.
C17_BackgroundPress ==
    [][(ev'.kind = "press" /\ nevents' = nevents + 1) =>
            /\ PressOnBackground => BackgroundPressEffect
            /\ Len(roi_list') > Len(roi_list) =>
                   (PressOnBackground \/ PressOnDuplicateIcon)]_vars

\* C17 happens: a background press added a second ROI while a handle of
\* the first was still grabbed.
C17_DrawnBesideExisting ==
    /\ ev.kind = "press"
    /\ ev.drawn = 2
    /\ Len(roi_list) = 2
    /\ roi_list[2].start = ev.pos
    /\ roi_list[2].end = ev.pos
    /\ selected_roi = 2
    /\ drawing
    /\ last_point = <<40, 30>>
    /\ resize_handle = NoHandle

\* C18: whenever a gesture is active (drawing, or a last point recorded)
\* the selection is a ROI of the collection, also when delete, clear or
\* open arrive between a press and its release.
C18_GestureHasTarget ==
    (drawing \/ last_point # None) => selected_roi \in DOMAIN roi_list

\* A handled move of a move gesture: on the image, not drawing, a ROI of
\* the collection selected, a last point recorded, no handle or edge.
MoveGestureMove ==
    /\ ev'.kind = "move"
    /\ nevents' = nevents + 1
    /\ pixmap
    /\ MapPos(ev'.pos) # None
    /\ ~drawing
    /\ selected_roi > 0
    /\ last_point # None
    /\ resize_handle = NoHandle

\* C19: in a move gesture each handled move translates start and end of
\* the selected ROI by point - last_point, so the size of get_rect() is
\* kept, changes no other ROI and sets last_point to the point.
C19_MoveStep ==
    [][MoveGestureMove =>
            LET pos == MapPos(ev'.pos)
                dx == pos[1] - last_point[1]
                dy == pos[2] - last_point[2]
                old == roi_list[selected_roi]
                new == roi_list'[selected_roi]
            IN  /\ DOMAIN roi_list' = DOMAIN roi_list
                /\ \A i \in DOMAIN roi_list : i # selected_roi => roi_list'[i] = roi_list[i]
                /\ new.start = <<old.start[1] + dx, old.start[2] + dy>>
                /\ new.end = <<old.end[1] + dx, old.end[2] + dy>>
                /\ Width(get_rect(new)) = Width(get_rect(old))
                /\ Height(get_rect(new)) = Height(get_rect(old))
                /\ last_point' = pos]_vars

\* C20: while drawing, every handled on-image move sets the end of the
\* ROI being drawn (the one the last background press appended, ev.drawn)
\* to the mapped point, leaves its start, and changes no other ROI, the
\* order of the collection or the selection.
C20_DrawingStep ==
    [][(/\ ev'.kind = "move"
        /\ nevents' = nevents + 1
        /\ pixmap
        /\ MapPos(ev'.pos) # None
        /\ drawing) =>
            /\ ev.drawn \in DOMAIN roi_list
            /\ DOMAIN roi_list' = DOMAIN roi_list
            /\ roi_list'[ev.drawn].end = MapPos(ev'.pos)
            /\ roi_list'[ev.drawn].start = roi_list[ev.drawn].start
            /\ \A i \in DOMAIN roi_list : i # ev.drawn => roi_list'[i] = roi_list[i]
            /\ selected_roi' = selected_roi]_vars

\* C21: a release, from any state, ends the gesture (drawing false, no
\* handle, no last point) and leaves the selection, the collection and
\* every ROI as they were: the edit in progress is kept.
C21_ReleaseToIdle ==
    [][(ev'.kind = "release" /\ nevents' = nevents + 1) =>
            /\ ~drawing'
            /\ resize_handle' = NoHandle
            /\ last_point' = None
            /\ roi_list' = roi_list
            /\ selected_roi' = selected_roi
            /\ detached' = detached]_vars

\* C21 happens: a release after a press and a move that changed the
\* selected ROI; it keeps the corners the move gave it and stays selected.
C21_ReleasedAfterEdit ==
    /\ ev.kind = "release"
    /\ nevents >= 3
    /\ selected_roi \in DOMAIN roi_list
    /\ <<roi_list[selected_roi].start, roi_list[selected_roi].end>>
           \notin {<<<<40, 30>>, <<60, 50>>>>, <<<<50, 40>>, <<70, 60>>>>}
    /\ roi_list[selected_roi].start # roi_list[selected_roi].end
    /\ ~drawing
    /\ last_point = None
    /\ resize_handle = NoHandle

\* No gesture: not drawing, no last point, no handle.
Idle == ~drawing /\ last_point = None /\ resize_handle = NoHandle

\* C22: a move that follows a release, or follows such a move, changes no
\* ROI, nor the collection, the selection or the gesture fields; so no
\* sequence of moves between a release and the next press does.
C22_HoverChangesNothing ==
    [][(/\ ev'.kind = "move"
        /\ nevents' = nevents + 1
        /\ ev.kind = "release" \/ (ev.kind = "move" /\ Idle)) =>
            /\ roi_list' = roi_list
            /\ selected_roi' = selected_roi
            /\ detached' = detached
            /\ roi_counter' = roi_counter
            /\ Idle']_vars

\* C22 happens: a ROI was made by a press and a release, it is selected,
\* and the pointer then moved over it.
C22_HoverOverSelection ==
    /\ ev.kind = "move"
    /\ ev.pos = <<30, 20>>
    /\ selected_roi = 1
    /\ roi_list[1].shared
    /\ roi_list[1].start = <<30, 20>>
    /\ Idle

\* <<left, top, right, bottom>> of a rect.
Sides(rect) == <<Left(rect), Top(rect), Right(rect), Bottom(rect)>>

\* The sides after the side or corner that target names has moved by
\* (dx, dy), the opposite side or corner staying where it was.
SidesMoved(sides, target, dx, dy) ==
    LET h == target \in {"top_left", "bottom_left", "left"}
        r == target \in {"top_right", "bottom_right", "right"}
        t == target \in {"top_left", "top_right", "top"}
        b == target \in {"bottom_left", "bottom_right", "bottom"}
    IN  <<sides[1] + (IF h THEN dx ELSE 0), sides[2] + (IF t THEN dy ELSE 0),
          sides[3] + (IF r THEN dx ELSE 0), sides[4] + (IF b THEN dy ELSE 0)>>

\* C23: whatever the order of start and end, the first move of a resize
\* begun on the target hit-testing reports moves the side or corner of
\* get_rect() that the target names and keeps the opposite one fixed (moves
\* that would carry it across the opposite side are left out).
C23_HandleMovesItsSide ==
    [][(/\ ev.kind = "grab"
        /\ ev'.kind = "resize"
        /\ resize_handle = PressTarget(roi_list[1], last_point)
        /\ resize_handle # NoHandle) =>
            LET pos == MapPos(ev'.pos)
                want == SidesMoved(Sides(get_rect(roi_list[1])), resize_handle,
                                   pos[1] - last_point[1], pos[2] - last_point[2])
            IN  (want[1] <= want[3] /\ want[2] <= want[4]) =>
                    Sides(get_rect(roi_list'[1])) = want]_vars

\* C24: in every state reached by presses, moves and releases in any
\* order, drawing excludes dragging (drawing implies no last point), a
\* handle implies a last point, and while drawing the selection is the ROI
\* appended by the press that started the drawing.
C24_GestureWellFormed ==
    /\ drawing => last_point = None
    /\ resize_handle # NoHandle => last_point # None
    /\ drawing => selected_roi = ev.drawn

\* C25: a load that succeeds makes the collection the file's ROIs in file
\* order and the selection none, whether the stored image path is the
\* current one, differs and the switch is accepted, or differs and it is
\* declined; when declined the image and its path stay.
C25_LoadReplaces ==
    [][(/\ ev'.kind = "load"
        /\ nevents' = nevents + 1
        /\ ~LoadFails(ev'.file, ev'.yes)) =>
            LET file == ev'.file
            IN  /\ Len(roi_list') = Len(file.rois)
                /\ \A i \in DOMAIN file.rois :
                       /\ roi_list'[i].start = file.rois[i].start
                       /\ roi_list'[i].end = file.rois[i].end
                       /\ "name" \in file.rois[i].keys => roi_list'[i].name = file.rois[i].name
                /\ selected_roi' = 0
                /\ (image_path # file.image_path /\ ~ev'.yes) =>
                       image' = image /\ image_path' = image_path]_vars

\* C25 happens: with "a.png" open and its one ROI selected, a file stored
\* for another image was loaded and the switch declined; the ROI of the
\* file is the collection, nothing is selected, "a.png" stays.
C25_LoadedDeclined ==
    /\ ev.kind = "load"
    /\ ev.before = 1
    /\ ev.file.image_path = "c.png"
    /\ ~ev.yes
    /\ image_path = "a.png"
    /\ image = ImageFile("a.png")
    /\ Len(roi_list) = 1
    /\ roi_list[1].name = "ROI_2"
    /\ roi_list[1].start = <<40, 30>>
    /\ selected_roi = 0

\* C26: a double click at an on-image point selects the first ROI in
\* collection order whose body holds the point, and only that ROI may be
\* edited; when no body holds the point nothing changes; either way the
\* collection, every ROI's start and end and the gesture fields stay.
C26_DoubleClick ==
    [][(/\ ev'.kind = "doubleclick"
        /\ nevents' = nevents + 1
        /\ pixmap
        /\ MapPos(ev'.pos) # None) =>
            LET pos == MapPos(ev'.pos)
                hit == {i \in DOMAIN roi_list : contains(roi_list[i], pos)}
            IN  /\ DOMAIN roi_list' = DOMAIN roi_list
                /\ \A i \in DOMAIN roi_list :
                       /\ roi_list'[i].start = roi_list[i].start
                       /\ roi_list'[i].end = roi_list[i].end
                /\ drawing' = drawing
                /\ last_point' = last_point
                /\ resize_handle' = resize_handle
                /\ roi_counter' = roi_counter
                /\ hit = {} => roi_list' = roi_list /\ selected_roi' = selected_roi
                /\ hit # {} =>
                       /\ selected_roi' \in hit
                       /\ \A j \in hit : selected_roi' <= j
                       /\ \A i \in DOMAIN roi_list :
                              i # selected_roi' => roi_list'[i] = roi_list[i]]_vars

\* C26 happens: a double click where the two ROIs overlap selected the
\* first and its editor, accepted, gave it a description.
C26_FirstOfTwoEdited ==
    /\ ev.kind = "doubleclick"
    /\ ev.pos = <<55, 45>>
    /\ Len(roi_list) = 2
    /\ contains(roi_list[1], <<55, 45>>)
    /\ contains(roi_list[2], <<55, 45>>)
    /\ selected_roi = 1
    /\ roi_list[1].description = "d"
    /\ roi_list[2].description = ""

\* The selected ROI is where it was at the press, translated by to - from.
Translated(from, to) ==
    /\ selected_roi \in DOMAIN roi_list
    /\ roi_list[selected_roi].start =
           <<ev.gesture.start[1] + to[1] - from[1], ev.gesture.start[2] + to[2] - from[2]>>
    /\ roi_list[selected_roi].end =
           <<ev.gesture.end[1] + to[1] - from[1], ev.gesture.end[2] + to[2] - from[2]>>

\* During a move gesture the ROI is translated by last_point minus the
\* press point, off-image moves skipped.
C27_DuringGesture ==
    (ev.gesture # NoGesture /\ ev.kind \in {"press", "move"}) =>
        Translated(ev.gesture.point, last_point)

\* C27: at every point of a move gesture the selected ROI is its position
\* at the press translated by last_point minus the press point, and at the
\* release by the last on-image pointer position minus the press point.
C27_Telescoping ==
    /\ C27_DuringGesture
    /\ (ev.gesture # NoGesture /\ ev.kind = "release") =>
           Translated(ev.gesture.point, ev.gesture.seen)

\* C28: zoom_in, zoom_out and fit_to_screen change only the scale factor
\* (and the pixmap painted from it): the collection, every ROI, the
\* selection, the name counter, the gesture fields, the image and the
\* files stay; and the scale factor stays strictly positive.
C28_ZoomOnlyScales ==
    [][(ev'.kind \in {"zoom_in", "zoom_out", "fit"} /\ nevents' = nevents + 1) =>
            /\ roi_list' = roi_list
            /\ selected_roi' = selected_roi
            /\ detached' = detached
            /\ roi_counter' = roi_counter
            /\ drawing' = drawing
            /\ last_point' = last_point
            /\ resize_handle' = resize_handle
            /\ image' = image
            /\ image_path' = image_path
            /\ disk' = disk
            /\ scale_factor'[1] > 0
            /\ scale_factor'[2] > 0]_vars

\* C28 happens: a ROI was grabbed by its body and the view zoomed out four
\* times; the ROI, the selection and the gesture are as the press left them.
C28_ZoomedOutWhileDragging ==
    /\ ev.kind = "zoom_out"
    /\ scale_factor = <<256, 625>>
    /\ selected_roi = 1
    /\ last_point = <<50, 40>>
    /\ roi_list[1].start = <<40, 30>>
    /\ roi_list[1].end = <<60, 50>>

====
